---- MODULE Spec2Model ----
(***************************************************************************)
(* Model of inverse_kinematics.py: the Screen object (points, sticks,      *)
(* tempPoint, moving_point), its three pointer handlers (click, drag,      *)
(* release) and the solver (simulate_frame, calculate_joint).              *)
(*                                                                         *)
(* Points and sticks are Python objects compared by identity; here a point *)
(* is its index in Screen.points and a stick its index in Screen.sticks.   *)
(* None is index 0.                                                        *)
(*                                                                         *)
(* Coordinates are float64 in the program.  Here a coordinate is a         *)
(* fixed-point number with Scale units per pixel, a unit direction vector  *)
(* has DirScale units per 1.0, every operation rounds to nearest as IEEE   *)
(* does, and NaN is kept as a flag of the position.  Statements "within    *)
(* epsilon" of the specification are stated within Eps units.              *)
(***************************************************************************)
EXTENDS Integers, Sequences, FiniteSets, TLC

\* points, sticks, tempPoint and moving_point are the fields of Screen;
\* button is the state of the mouse button.  The others are history kept for
\* the properties: pressed is the point under the pointer at the last press
\* (0 for none), released the point the last release acted on (0 for none),
\* ndrags counts the drags that moved a point, and frame records the last
\* simulate_frame.
VARIABLES points, sticks, tempPoint, moving_point, button, pressed, released, ndrags, frame

vars == <<points, sticks, tempPoint, moving_point, button, pressed, released, ndrags, frame>>

\* ------------------------------------------------------------------ bounds
\* Points and sticks the pointer events may create, drag events that move a
\* point, and the points and sticks of the skeletons the solver is run on.
MaxPoints == 2
MaxSticks == 2
MaxDrags == 2
SkeletonPoints == 3
SkeletonSticks == 3
\* Python's recursion limit (sys.getrecursionlimit()), scaled to the model.
RecursionLimit == 8
Scale == 100
DirScale == 10000
Eps == 4

\* ---------------------------------------------------------------- Config
POINT_SIZE == 16
STICK_ITERATIONS == 10

\* Pointer coordinates (event.x, event.y), in pixels, that the events carry.
\* (1, 13) and (85, 0) are 85 pixels apart (13, 84, 85 is a Pythagorean
\* triple); (10, 10) is within POINT_SIZE of (1, 13).
Pointer == {<<1, 13>>, <<85, 0>>, <<10, 10>>}

\* The pointer coordinates of the drag events on a built skeleton: on point
\* 1, on point 2, and off the line of the points.
AnchorPointer == {<<0, 0>>, <<85, 0>>, <<1, 13>>}

\* ------------------------------------------------------------ arithmetic
Abs(a) == IF a < 0 THEN -a ELSE a

Min(S) == CHOOSE a \in S : \A b \in S : a <= b

Max(S) == CHOOSE a \in S : \A b \in S : a >= b

\* a / b rounded to nearest, b > 0.
RoundDiv(a, b) == IF a >= 0 THEN (2 * a + b) \div (2 * b) ELSE -((2 * (-a) + b) \div (2 * b))

RECURSIVE Newton(_, _)
\* Integer Newton iteration from x >= sqrt(n): the floor of sqrt(n).
Newton(n, x) ==
    LET y == (x + n \div x) \div 2
    IN  IF y >= x THEN x ELSE Newton(n, y)

\* numpy.linalg.norm of the vector (dx, dy), rounded to nearest.
Norm(dx, dy) ==
    LET a == Abs(dx)
        b == Abs(dy)
        n == a * a + b * b
        hi == IF a >= b THEN a + b \div 2 + 1 ELSE b + a \div 2 + 1
        r == IF n = 0 THEN 0 ELSE Newton(n, hi)
    IN  IF n - r * r > r THEN r + 1 ELSE r

\* ------------------------------------------------------------- positions
Pos(x, y) == [x |-> x, y |-> y, nan |-> FALSE]

\* array([nan, nan])
NaNPos == [x |-> 0, y |-> 0, nan |-> TRUE]

\* array([event.x, event.y]) for a pointer event at pixel xy.
EventPos(xy) == Pos(xy[1] * Scale, xy[2] * Scale)

\* distance(p - q) for positions without NaN.
Dist(p, q) == Norm(p.x - q.x, p.y - q.y)

\* distance(position - point.position) < Config.POINT_SIZE; a comparison
\* with NaN is False.
Near(position, p) ==
    /\ ~p.nan
    /\ (position.x - p.x) * (position.x - p.x) + (position.y - p.y) * (position.y - p.y)
         < (POINT_SIZE * Scale) * (POINT_SIZE * Scale)

\* Point(position): unlocked, prevPosition a copy of the position.
NewPoint(position) == [position |-> position, locked |-> FALSE, prevPosition |-> position]

\* Stick(pointA, pointB, length = distance(pointA.position - pointB.position))
NewStick(P, a, b) ==
    [pointA |-> a, pointB |-> b, length |-> Dist(P[a].position, P[b].position)]

\* ---------------------------------------------------------------- solver
\* joint = stick.pointA if letter == "A" else stick.pointB
Joint(s, letter) == IF letter = "A" THEN sticks[s].pointA ELSE sticks[s].pointB

\* prevJoint = stick.pointB if letter == "A" else stick.pointA
PrevJoint(s, letter) == IF letter = "A" THEN sticks[s].pointB ELSE sticks[s].pointA

\* A faulty locked test: calculate_joint without its early return.
JointLockedNever(P, joint) == FALSE

\* if joint.locked: return
JointLocked(P, joint) == P[joint].locked

\* The anchor-side point and the joint are at the same position: the
\* direction vector has norm 0.
Coincide(prev, joint) == ~prev.nan /\ ~joint.nan /\ prev.x = joint.x /\ prev.y = joint.y

\* A faulty correction: prevJoint.position + direction, the stick length
\* left out.
SnapUnit(prev, joint, length) ==
    IF prev.nan \/ joint.nan THEN NaNPos
    ELSE LET dx == joint.x - prev.x
             dy == joint.y - prev.y
             n == Norm(dx, dy)
         IN  IF n = 0 THEN NaNPos
             ELSE Pos(prev.x + RoundDiv(RoundDiv(dx * DirScale, n) * Scale, DirScale),
                      prev.y + RoundDiv(RoundDiv(dy * DirScale, n) * Scale, DirScale))

\* A faulty correction, damped: the joint goes a quarter of the way to the
\* corrected position only.
SnapDamped(prev, joint, length) ==
    IF prev.nan \/ joint.nan THEN NaNPos
    ELSE LET dx == joint.x - prev.x
             dy == joint.y - prev.y
             n == Norm(dx, dy)
         IN  IF n = 0 THEN NaNPos
             ELSE Pos(RoundDiv(3 * joint.x + prev.x
                                 + RoundDiv(RoundDiv(dx * DirScale, n) * length, DirScale), 4),
                      RoundDiv(3 * joint.y + prev.y
                                 + RoundDiv(RoundDiv(dy * DirScale, n) * length, DirScale), 4))

\* direction = (joint - prevJoint) / distance(joint - prevJoint)
\* joint.position = prevJoint.position + direction * stick.length
\* numpy divides 0.0 by 0.0 to NaN (a warning, no exception), and NaN
\* propagates through every operation.
Snap(prev, joint, length) ==
    IF prev.nan \/ joint.nan THEN NaNPos
    ELSE LET dx == joint.x - prev.x
             dy == joint.y - prev.y
             n == Norm(dx, dy)
         IN  IF n = 0 THEN NaNPos
             ELSE Pos(prev.x + RoundDiv(RoundDiv(dx * DirScale, n) * length, DirScale),
                      prev.y + RoundDiv(RoundDiv(dy * DirScale, n) * length, DirScale))

\* A faulty filter: every stick, the one of the call included.
OthersAll(s) == 1..Len(sticks)

\* [i for i in self.sticks if i is not stick]
Others(s) == {i \in 1..Len(sticks) : i # s}

\* next_stick.pointA is joint, or next_stick.pointB is joint
Touches(i, joint) == sticks[i].pointA = joint \/ sticks[i].pointB = joint

\* A faulty loop: it recurses on the last stick that touches the joint.
NextStickLast(s, joint) ==
    LET T == {i \in 1..Len(sticks) : i # s /\ Touches(i, joint)}
    IN  IF T = {} THEN 0 ELSE Max(T)

\* The stick at which the loop over the other sticks recurses and returns:
\* the first one, in insertion order, that touches the joint; 0 when the
\* loop ends without one.
NextStick(s, joint) ==
    LET T == {i \in Others(s) : Touches(i, joint)}
    IN  IF T = {} THEN 0 ELSE Min(T)

\* The letter of the recursive call on next_stick: "B" when its pointA is
\* the joint, "A" when its pointB is.
NextLetter(i, joint) == IF sticks[i].pointA = joint THEN "B" ELSE "A"

RECURSIVE calculate_joint(_, _, _, _)
\* calculate_joint(stick, letter) on the points P, at recursion depth
\* `depth`.  The result holds the points after the call, the calls made
\* (this one first), whether the recursion exceeded the interpreter's limit
\* (RecursionError, which unwinds every frame and leaves the positions
\* written so far) and whether some step divided by a zero norm.
calculate_joint(P, s, letter, depth) ==
    LET joint == Joint(s, letter)
        prevJoint == PrevJoint(s, letter)
        call == <<[stick |-> s, letter |-> letter]>>
    IN  IF depth > RecursionLimit
        THEN [P |-> P, trace |-> <<>>, overflow |-> TRUE, degenerate |-> FALSE]
        ELSE IF JointLocked(P, joint)
        THEN [P |-> P, trace |-> call, overflow |-> FALSE, degenerate |-> FALSE]
        ELSE LET P1 == [P EXCEPT ![joint].position =
                            Snap(P[prevJoint].position, P[joint].position, sticks[s].length)]
                 degen == Coincide(P[prevJoint].position, P[joint].position)
                 nxt == NextStick(s, joint)
             IN  IF nxt = 0
                 THEN [P |-> P1, trace |-> call, overflow |-> FALSE, degenerate |-> degen]
                 ELSE LET r == calculate_joint(P1, nxt, NextLetter(nxt, joint), depth + 1)
                      IN  [P |-> r.P, trace |-> call \o r.trace, overflow |-> r.overflow,
                           degenerate |-> degen \/ r.degenerate]

\* A faulty sweep: else in place of elif, a stick without a locked endpoint
\* is treated as one whose pointB is locked.
SweepLetterAll(P, i) == IF P[sticks[i].pointA].locked THEN "B" ELSE "A"

\* The call simulate_frame makes for stick i: calculate_joint(stick, "B")
\* if pointA is locked, calculate_joint(stick, "A") elif pointB is locked,
\* none ("-") otherwise.
SweepLetter(P, i) ==
    IF P[sticks[i].pointA].locked THEN "B"
    ELSE IF P[sticks[i].pointB].locked THEN "A"
    ELSE "-"

RECURSIVE SweepFrom(_, _)
\* for stick in self.sticks, from the i-th stick on.  acc holds the points,
\* the set of recursive descents made so far, and the two flags.
SweepFrom(acc, i) ==
    IF i > Len(sticks) \/ acc.overflow THEN acc
    ELSE LET letter == SweepLetter(acc.P, i)
         IN  IF letter = "-" THEN SweepFrom(acc, i + 1)
             ELSE LET r == calculate_joint(acc.P, i, letter, 1)
                  IN  SweepFrom([P |-> r.P, walks |-> acc.walks \cup {r.trace},
                                 overflow |-> r.overflow,
                                 degenerate |-> acc.degenerate \/ r.degenerate], i + 1)

RECURSIVE Iterate(_, _)
\* for _ in range(k): k sweeps over the sticks.  A sweep is a function of
\* acc, so once a sweep returns acc itself the remaining sweeps return it
\* too, and they are not evaluated again.
Iterate(acc, k) ==
    IF k = 0 \/ acc.overflow THEN acc
    ELSE LET next == SweepFrom(acc, 1)
         IN  IF next = acc THEN acc ELSE Iterate(next, k - 1)

\* simulate_frame on the points P (draw_screen changes no state of the model).
simulate_frame(P) ==
    Iterate([P |-> P, walks |-> {}, overflow |-> FALSE, degenerate |-> FALSE], STICK_ITERATIONS)

\* ------------------------------------------------------------- handlers
\* The record of the last simulate_frame, kept for the properties: start
\* holds the positions when it began, repeat says that an earlier
\* simulate_frame ended in exactly the state in which this one began.
NoFrame == [ran |-> FALSE, start |-> <<>>, repeat |-> FALSE, overflow |-> FALSE,
            degenerate |-> FALSE, walks |-> {}]

\* The points within POINT_SIZE of the pointer, in the order of self.points.
Hits(position) == {i \in 1..Len(points) : Near(position, points[i].position)}

\* click: tempPoint becomes the first point near the pointer; it keeps its
\* old value when there is none.
Click(xy) ==
    /\ button = "up"
    /\ button' = "down"
    /\ LET h == Hits(EventPos(xy))
       IN  /\ tempPoint' = IF h = {} THEN tempPoint ELSE Min(h)
           /\ pressed' = IF h = {} THEN 0 ELSE Min(h)
    /\ UNCHANGED <<points, sticks, moving_point, released, ndrags, frame>>

\* The point drag moves: the last locked point near the pointer, else the
\* one it was moving already.
DragTarget(position) ==
    LET h == {i \in Hits(position) : points[i].locked}
    IN  IF h = {} THEN moving_point ELSE Max(h)

\* drag
Drag(xy) ==
    /\ button = "down"
    /\ ndrags < MaxDrags
    /\ LET position == EventPos(xy)
           mp == DragTarget(position)
       IN  /\ moving_point' = mp
           /\ IF mp # 0
              THEN LET P0 == [points EXCEPT ![mp].position = position]
                       r == simulate_frame(P0)
                   IN  /\ points' = r.P
                       /\ ndrags' = ndrags + 1
                       /\ frame' = [ran |-> TRUE,
                                    start |-> [i \in 1..Len(P0) |-> P0[i].position],
                                    repeat |-> frame.ran /\ P0 = points,
                                    overflow |-> r.overflow,
                                    degenerate |-> r.degenerate,
                                    walks |-> r.walks]
              ELSE UNCHANGED <<points, ndrags, frame>>
    /\ UNCHANGED <<sticks, tempPoint, button, pressed, released>>

\* A faulty identity test: release without its tempPoint branch.
IsTempPointNever(p) == FALSE

\* point is self.tempPoint
IsTempPoint(p) == p = tempPoint

\* release
Release(xy) ==
    /\ button = "down"
    /\ button' = "up"
    /\ LET position == EventPos(xy)
           h == Hits(position)
       IN  \/ /\ moving_point # 0
              /\ moving_point' = 0
              /\ released' = 0
              /\ UNCHANGED <<points, sticks, tempPoint, frame>>
           \/ /\ moving_point = 0
              /\ h # {}
              /\ IsTempPoint(Min(h))
              /\ released' = Min(h)
              /\ points' = [points EXCEPT ![Min(h)].locked = ~points[Min(h)].locked]
              /\ frame' = NoFrame
              /\ UNCHANGED <<sticks, tempPoint, moving_point>>
           \/ /\ moving_point = 0
              /\ h # {}
              /\ ~IsTempPoint(Min(h))
              /\ tempPoint # 0
              /\ Len(sticks) < MaxSticks
              /\ released' = Min(h)
              /\ sticks' = Append(sticks, NewStick(points, tempPoint, Min(h)))
              /\ frame' = NoFrame
              /\ UNCHANGED <<points, tempPoint, moving_point>>
           \/ /\ moving_point = 0
              /\ h # {}
              /\ ~IsTempPoint(Min(h))
              /\ tempPoint = 0
              /\ released' = Min(h)
              /\ UNCHANGED <<points, sticks, tempPoint, moving_point, frame>>
           \/ /\ moving_point = 0
              /\ h = {}
              /\ Len(points) < MaxPoints
              /\ released' = 0
              /\ points' = Append(points, NewPoint(position))
              /\ tempPoint' = 0
              /\ frame' = NoFrame
              /\ UNCHANGED <<sticks, moving_point>>
    /\ UNCHANGED <<pressed, ndrags>>

\* Screen.__init__
Init ==
    /\ points = <<>>
    /\ sticks = <<>>
    /\ tempPoint = 0
    /\ moving_point = 0
    /\ button = "up"
    /\ pressed = 0
    /\ released = 0
    /\ ndrags = 0
    /\ frame = NoFrame

Next == \E xy \in Pointer : Click(xy) \/ Drag(xy) \/ Release(xy)

Spec == Init /\ [][Next]_vars

\* --------------------------------------------------- skeletons under drag
\* Point i of a built skeleton was created at pixel (85 (i - 1), 0): point 1
\* is within POINT_SIZE of the pointer at (1, 13), which is 85 pixels from
\* point 2.
Layout(i) == EventPos(<<85 * (i - 1), 0>>)

\* Where point a was when it was connected to point b: at its place, but for
\* point 2, an anchor then, which was held 10 pixels to the left while it
\* was connected to point 3 (that stick is 10 pixels longer than the
\* distance of its ends).
Connected(a, b) == IF a = 2 /\ b = 3 THEN EventPos(<<75, 0>>) ELSE Layout(a)

\* The stick lists of a built skeleton: up to MaxSticks sticks, in any
\* order, between any two different points, duplicates and loops included.
Pairs == {ab \in (1..SkeletonPoints) \X (1..SkeletonPoints) : ab[1] < ab[2]}

StickLists == UNION {[1..k -> Pairs] : k \in 0..SkeletonSticks}

\* A skeleton built before any drag (SkeletonPoints points created, sticks
\* connected, locks toggled), with the button pressed on point 1, an anchor.
InitSolver ==
    /\ \E L \in [1..SkeletonPoints -> BOOLEAN] :
         /\ L[1]
         /\ points = [i \in 1..SkeletonPoints |-> [NewPoint(Layout(i)) EXCEPT !.locked = L[i]]]
    /\ \E sl \in StickLists :
         sticks = [k \in 1..Len(sl) |->
                     [pointA |-> sl[k][1], pointB |-> sl[k][2],
                      length |-> Dist(Connected(sl[k][1], sl[k][2]), Layout(sl[k][2]))]]
    /\ tempPoint = 1
    /\ moving_point = 0
    /\ button = "down"
    /\ pressed = 1
    /\ released = 0
    /\ ndrags = 0
    /\ frame = NoFrame

NextSolver == \E xy \in AnchorPointer : Drag(xy)

SpecSolver == InitSolver /\ [][NextSolver]_vars

\* ------------------------------------------------------------ properties
PointIds == 1..Len(points)

StickIds == 1..Len(sticks)

Ends(s) == {sticks[s].pointA, sticks[s].pointB}

\* No coordinate of any point is NaN.
NoNaN == \A i \in PointIds : ~points[i].position.nan

\* The points one stick of S away from a point of X that is in Through.
Step(X, S, Through) ==
    X \cup {q \in PointIds : \E s \in S : q \in Ends(s) /\ (Ends(s) \ {q}) \cap (X \cap Through) # {}}

RECURSIVE Closure(_, _, _, _)
Closure(X, S, Through, n) ==
    IF n = 0 THEN X
    ELSE LET Y == Step(X, S, Through)
         IN  IF Y = X THEN X ELSE Closure(Y, S, Through, n - 1)

\* The points connected to p by sticks.
Component(p) == Closure({p}, StickIds, PointIds, Len(points))

\* The sticks form a forest: no loop of sticks, no two sticks between the
\* same two points, no stick from a point to itself.
IsForest == Len(sticks) + Cardinality({Component(p) : p \in PointIds}) = Len(points)

Unlocked == {i \in PointIds : ~points[i].locked}

\* Stick s has exactly one locked endpoint.
OneLocked(s) == points[sticks[s].pointA].locked # points[sticks[s].pointB].locked

\* The free endpoint of a stick with exactly one locked endpoint.
FreeEnd(s) == IF points[sticks[s].pointA].locked THEN sticks[s].pointB ELSE sticks[s].pointA

\* The points that the free endpoint of s reaches by sticks other than s,
\* passing through unlocked points only.
FreeSide(s) == Closure({FreeEnd(s)}, StickIds \ {s}, Unlocked, Len(points))

\* The current length of stick s is its rest length, within Eps.
AtRest(s) ==
    Abs(Dist(points[sticks[s].pointA].position, points[sticks[s].pointB].position)
          - sticks[s].length) <= Eps

\* Two positions are the same within Eps (NaN is the same as NaN only).
Same(p, q) ==
    \/ p.nan /\ q.nan
    \/ ~p.nan /\ ~q.nan /\ Abs(p.x - q.x) <= Eps /\ Abs(p.y - q.y) <= Eps

\* Point i is where it was when the last simulate_frame began.
Unmoved(i) == points[i].position = frame.start[i]

\* The last simulate_frame ran all its sweeps on coordinates that are numbers.
Completed == frame.ran /\ ~frame.overflow /\ ~frame.degenerate /\ NoNaN

\* C1 (anchor invariance): after simulate_frame, every locked point is at
\* the position it had when simulate_frame began.
AnchorInvariance == frame.ran => \A i \in PointIds : points[i].locked => Unmoved(i)

\* A simulate_frame that moved an unlocked point of a skeleton with an anchor.
AnchorInvarianceWitness ==
    /\ frame.ran
    /\ \E i \in PointIds : ~points[i].locked /\ ~Unmoved(i)
    /\ \E i \in PointIds : points[i].locked /\ Unmoved(i)

\* C2 as stated (length preservation): after a simulate_frame that ran all
\* its sweeps without a zero direction vector, every stick with exactly one
\* locked endpoint has its rest length, within Eps.
LengthPreservation == Completed => \A s \in StickIds : OneLocked(s) => AtRest(s)

\* C2 as amended: the same, for the sticks of a forest whose free endpoint
\* reaches no locked point by other sticks through unlocked points.
LengthPreservationOneAnchor ==
    (Completed /\ IsForest) =>
        \A s \in StickIds :
            (OneLocked(s) /\ \A q \in FreeSide(s) : ~points[q].locked) => AtRest(s)

\* A stick of a forest with one locked endpoint, corrected by a
\* simulate_frame that moved its free endpoint.
LengthPreservationWitness ==
    /\ Completed
    /\ IsForest
    /\ \E s \in StickIds :
         /\ OneLocked(s)
         /\ \A q \in FreeSide(s) : ~points[q].locked
         /\ ~Unmoved(FreeEnd(s))
         /\ AtRest(s)

\* C3 as stated (termination): no recursive descent of simulate_frame
\* outgrows the recursion limit; simulate_frame runs all its sweeps.
ResolveCompletes == ~frame.overflow

\* Both endpoints of stick s are unlocked.
BothFree(s) == ~points[sticks[s].pointA].locked /\ ~points[sticks[s].pointB].locked

\* No point connected to stick s is locked.
AnchorFree(s) == \A q \in Component(sticks[s].pointA) : ~points[q].locked

\* C4 as stated (inert free structures): simulate_frame leaves both
\* endpoints of a stick with two unlocked endpoints where they were, within
\* Eps.
InertFreeSticks ==
    (frame.ran /\ ~frame.overflow /\ NoNaN) =>
        \A s \in StickIds :
            BothFree(s) => \A q \in Ends(s) : Same(points[q].position, frame.start[q])

\* C4 as amended: simulate_frame leaves both endpoints of a stick that is
\* connected to no locked point exactly where they were.
InertFreeStructures ==
    frame.ran => \A s \in StickIds : AnchorFree(s) => \A q \in Ends(s) : Unmoved(q)

\* A simulate_frame, after a dragged anchor, on a skeleton with a stick
\* that is connected to no locked point and does not have its rest length.
InertFreeStructuresWitness ==
    /\ frame.ran
    /\ NoNaN
    /\ moving_point # 0
    /\ points[moving_point].position # points[moving_point].prevPosition
    /\ \E s \in StickIds : AnchorFree(s) /\ ~AtRest(s)

\* C5 as stated (idempotence): a simulate_frame that begins in the state in
\* which the one before it ended, and runs all its sweeps, leaves every
\* point where it was, within Eps.
Idempotence ==
    (frame.repeat /\ ~frame.overflow /\ NoNaN) =>
        \A i \in PointIds : Same(points[i].position, frame.start[i])

\* No two locked points are connected by sticks.
OneAnchorEach ==
    \A p, q \in PointIds :
        (points[p].locked /\ points[q].locked /\ q \in Component(p)) => p = q

\* C5 as amended: the same, for a forest in which no two locked points are
\* connected.
IdempotenceOneAnchor ==
    (frame.repeat /\ IsForest /\ OneAnchorEach) =>
        \A i \in PointIds : Same(points[i].position, frame.start[i])

\* A second simulate_frame on a forest whose dragged anchor, away from where
\* it was created, has a joint connected to it.
IdempotenceWitness ==
    /\ frame.repeat
    /\ IsForest
    /\ OneAnchorEach
    /\ moving_point # 0
    /\ points[moving_point].position # points[moving_point].prevPosition
    /\ \E s \in StickIds : moving_point \in Ends(s) /\ OneLocked(s) /\ AtRest(s)

\* C6 as stated (degenerate constraint): no NaN coordinate is ever written
\* to a point.
NoNaNWritten == NoNaN

\* Every stick has two different points as its ends.
DistinctEnds == \A s \in StickIds : sticks[s].pointA # sticks[s].pointB

\* A release over the point on which the button was pressed.
SelfConnect == button = "down" /\ button' = "up" /\ pressed # 0 /\ released' = pressed

\* C7 (no self-connected stick): every stick always has two different
\* points as its ends, and a release over the point on which the button
\* was pressed leaves the sticks as they were.
NoSelfStick == []DistinctEnds /\ [][SelfConnect => sticks' = sticks]_vars

\* A skeleton with a stick, after a release over the point on which the
\* button was pressed (which toggled that point's lock).
NoSelfStickWitness ==
    /\ button = "up"
    /\ pressed # 0
    /\ released = pressed
    /\ sticks # <<>>
    /\ points[pressed].locked

\* C8 as stated (drag moves only the pressed anchor): the point a drag
\* repositions is locked and is the point on which the button was pressed.
DragMovesPressedAnchor ==
    moving_point # 0 => (moving_point = pressed /\ points[moving_point].locked)

\* The sticks on which the last simulate_frame called calculate_joint.
Applied == {w[k].stick : <<w, k>> \in {wk \in frame.walks \X (1..RecursionLimit) : wk[2] <= Len(wk[1])}}

\* The joint of a call of calculate_joint.
JointOf(c) == IF c.letter = "A" THEN sticks[c.stick].pointA ELSE sticks[c.stick].pointB

\* The point on the other side of the stick of a call.
AnchorOf(c) == IF c.letter = "A" THEN sticks[c.stick].pointB ELSE sticks[c.stick].pointA

\* Stick t is the first stick in insertion order, other than s, that
\* touches point j.
FirstOther(t, s, j) ==
    /\ t # s
    /\ j \in Ends(t)
    /\ \A u \in StickIds : (u < t /\ u # s) => j \notin Ends(u)

\* Every descent goes from a call to the first other stick at its joint.
FirstMatchOnly ==
    \A w \in frame.walks :
        \A k \in 1..(Len(w) - 1) : FirstOther(w[k + 1].stick, w[k].stick, JointOf(w[k]))

\* The unlocked joints that more than two sticks touch and that a descent
\* of the last simulate_frame corrected.
BranchJoints ==
    {j \in Unlocked :
        /\ Cardinality({s \in StickIds : j \in Ends(s)}) > 2
        /\ \E w \in frame.walks : \E k \in 1..Len(w) : JointOf(w[k]) = j}

\* C9 as stated (branch handling): a descent continues along the first
\* other stick only, and every stick at a branch joint has had
\* calculate_joint applied to it by the end of simulate_frame.
BranchesCorrected ==
    (frame.ran /\ ~frame.overflow) =>
        /\ FirstMatchOnly
        /\ \A j \in BranchJoints : \A s \in StickIds : j \in Ends(s) => s \in Applied

\* C9 as amended: a descent continues along the first other stick only,
\* and calculate_joint is applied only to sticks with a locked endpoint and
\* to sticks that are the first other stick at one of their unlocked
\* endpoints.
BranchesFirstMatch ==
    frame.ran =>
        /\ FirstMatchOnly
        /\ \A s \in Applied :
              \/ ~BothFree(s)
              \/ \E t \in StickIds : \E j \in Ends(s) \cap Unlocked : FirstOther(s, t, j)

\* A simulate_frame that ran all its sweeps, corrected a branch joint and
\* applied calculate_joint to another stick at it, but not to all of them.
BranchesWitness ==
    /\ frame.ran
    /\ ~frame.overflow
    /\ \E j \in BranchJoints :
         /\ \E s \in StickIds : j \in Ends(s) /\ s \notin Applied
         /\ \E w \in frame.walks : \E k \in 1..(Len(w) - 1) : JointOf(w[k]) = j

\* C10 (acyclic chain walk): on a forest no descent outgrows the recursion
\* limit, and every descent makes at most as many calls as there are
\* sticks, on different sticks, over different points.
AcyclicWalk ==
    (frame.ran /\ IsForest) =>
        /\ ~frame.overflow
        /\ \A w \in frame.walks :
              /\ Len(w) <= Len(sticks)
              /\ \A a, b \in 1..Len(w) : a # b => w[a].stick # w[b].stick
              /\ Cardinality({AnchorOf(w[1])} \cup {JointOf(w[k]) : k \in 1..Len(w)}) = Len(w) + 1

\* A descent on a forest of two or more sticks that went through all of them.
AcyclicWalkWitness ==
    /\ frame.ran
    /\ IsForest
    /\ \E w \in frame.walks : Len(w) >= 2 /\ Len(w) = Len(sticks)

====
